---- MODULE Spec2Model ----
(***************************************************************************)
(* Model of the HLS stream manager (src/src/hls-stream/core.py) and of the *)
(* HTTP layer that drives it (src/src/hls-stream/api.py).                  *)
(*                                                                         *)
(* Python dictionaries are sequences of [k, v] members in insertion order. *)
(* The registry file is the sequence of members of the JSON object it      *)
(* holds.  Every HLSEncoder / HLSStream pair is an object of objs, named   *)
(* by its index; manager.encoders and manager.streams map ids to indices.  *)
(***************************************************************************)
EXTENDS Integers, Sequences, FiniteSets, TLC

\* ---------------------------------------------------------------- bounds
MaxOps == 2       \* registry entries started at start-up plus requests served
MaxFrames == 1    \* frames the sources deliver before they only fail
MaxInit == 2      \* members of the registry file at start-up
NSlots == 2       \* requests the HTTP layer may hold at once

Ids == {"a", "b"}
UrlUp == "rtsp://up"
UrlDown == "rtsp://down"
Urls == {UrlUp, UrlDown}
Slots == 1..NSlots

\* A source that answers; cv2.VideoCapture(url) opens only such a source.
Reachable(url) == url = UrlUp

\* Frame rate the reachable sources report (cap.get(CAP_PROP_FPS)).
SourceFps == 15

VARIABLES
    config,      \* manager.config
    file,        \* contents of the registry file (metadata/stream.json)
    encoders,    \* manager.encoders
    streams,     \* manager.streams
    dirs,        \* ids whose directory stream/<id> exists
    objs,        \* the encoder objects and their worker threads
    calls,       \* the request handlers of the HTTP layer, one per slot
    phase,       \* position of lifespan(): boot, ready, serving, stop_iter, stop_join, exited
    iter,        \* index of the running for-loop (of __init__, of stop)
    exitResult,  \* how manager.stop() ended: none, ok, raised
    served       \* registry entries found at start-up plus requests accepted so far

vars == <<config, file, encoders, streams, dirs, objs, calls, phase, iter, exitResult, served>>

\* ------------------------------------------------------------ dictionaries
Keys(d) == {d[i].k : i \in DOMAIN d}

Has(d, key) == key \in Keys(d)

Get(d, key) == d[CHOOSE i \in DOMAIN d : d[i].k = key].v

\* d[key] = val: an existing key keeps its place, a new one goes last.
Put(d, key, val) ==
    IF Has(d, key)
    THEN [i \in DOMAIN d |-> IF d[i].k = key THEN [k |-> key, v |-> val] ELSE d[i]]
    ELSE Append(d, [k |-> key, v |-> val])

IsNot(key, e) == e.k # key

\* d.pop(key, None)
Pop(d, key) == SelectSeq(d, LAMBDA e : IsNot(key, e))

\* ------------------------------------------------------------ Python floats
\* A float of Python is an IEEE 754 double.  A positive one is the record
\* [m, e]: m its significand of MantBits bits, first bit 1, read as an
\* integer, and the value is m * 2^e.  Results round to nearest, ties to even.
MantBits == 53

FZero == [m |-> <<>>, e |-> 0]

Zeros(n) == [i \in 1..n |-> 0]

\* Binary addition of two bit strings of one length with the carry c coming
\* in.  CarryInto(X, Y, c, i) is the carry into position i (position 0 is
\* the carry going out): some position to the right generates a carry, or
\* c comes in, and every position between passes it on.
CarryInto(X, Y, c, i) ==
    \/ \E j \in (i + 1)..Len(X) :
            /\ X[j] + Y[j] = 2
            /\ \A k \in (i + 1)..(j - 1) : X[k] + Y[k] = 1
    \/ /\ c = 1
       /\ \A k \in (i + 1)..Len(X) : X[k] + Y[k] = 1

AddBits(X, Y, c) ==
    LET bits == [i \in 1..Len(X) |->
                    (X[i] + Y[i] + IF CarryInto(X, Y, c, i) THEN 1 ELSE 0) % 2]
    IN  IF CarryInto(X, Y, c, 0) THEN <<1>> \o bits ELSE bits

\* The bit string S (first bit 1, at least MantBits long) times 2^e,
\* rounded to MantBits bits.
RoundBits(S, e) ==
    LET extra == Len(S) - MantBits
        m0 == SubSeq(S, 1, MantBits)
        up == /\ extra > 0
              /\ S[MantBits + 1] = 1
              /\ \/ m0[MantBits] = 1
                 \/ \E i \in (MantBits + 2)..Len(S) : S[i] = 1
        inc == AddBits(m0, Zeros(MantBits), 1)
    IN  IF ~up THEN [m |-> m0, e |-> e + extra]
        ELSE IF Len(inc) > MantBits
             THEN [m |-> SubSeq(inc, 1, MantBits), e |-> e + extra + 1]
             ELSE [m |-> inc, e |-> e + extra]

\* x + y
FAdd(x, y) ==
    IF x = FZero THEN y
    ELSE IF y = FZero THEN x
    ELSE LET hi == IF x.e >= y.e THEN x ELSE y
             lo == IF x.e >= y.e THEN y ELSE x
             d == hi.e - lo.e
         IN  RoundBits(AddBits(hi.m \o Zeros(d), Zeros(d) \o lo.m, 0), lo.e)

\* a / b scaled by a power of two into [1, 2): <<a', b', t>> with
\* a / b = (a' / b') * 2^t.
RECURSIVE Normalize(_, _, _)
Normalize(a, b, t) ==
    IF a < b THEN Normalize(2 * a, b, t - 1)
    ELSE IF a >= 2 * b THEN Normalize(a, 2 * b, t + 1)
    ELSE <<a, b, t>>

\* Bits produced by one step of the long division.
ChunkBits == 8

\* The next n bits of rem / b after the binary point, and what remains.
RECURSIVE DivBits(_, _, _)
DivBits(rem, b, n) ==
    IF n = 0 THEN [bits |-> <<>>, rem |-> rem]
    ELSE LET c == IF n < ChunkBits THEN n ELSE ChunkBits
             q == (rem * 2^c) \div b
             rest == DivBits((rem * 2^c) % b, b, n - c)
         IN  [bits |-> [i \in 1..c |-> (q \div 2^(c - i)) % 2] \o rest.bits,
              rem |-> rest.rem]

\* k / r of two integers, k >= 0, r >= 1
FDiv(k, r) ==
    IF k = 0 THEN FZero
    ELSE LET abt == Normalize(k, r, 0)
             q == DivBits(abt[1] - abt[2], abt[2], MantBits - 1)
             \* one guard bit, and a sticky bit for what remains
             g == DivBits(q.rem, abt[2], 1)
             tail == <<g.bits[1], IF g.rem > 0 THEN 1 ELSE 0>>
         IN  RoundBits(<<1>> \o q.bits \o tail, abt[3] - (MantBits - 1) - 2)

\* x < y
FLess(x, y) ==
    IF y = FZero THEN FALSE
    ELSE IF x = FZero THEN TRUE
    ELSE IF x.e # y.e THEN x.e < y.e
    ELSE \E i \in 1..MantBits :
            /\ x.m[i] < y.m[i]
            /\ \A j \in 1..(i - 1) : x.m[j] = y.m[j]

\* ------------------------------------------------------------ registry file
HlsPostfix(id) == <<"/stream/", id, "/index.m3u8">>

ConfigEntry(id, url) == [rtsp_url |-> url, hls_postfix |-> HlsPostfix(id)]

\* json.load: the members of the object in order, a repeated key keeping
\* its first place and taking its last value.
RECURSIVE LoadFrom(_, _)
LoadFrom(text, acc) ==
    IF text = <<>> THEN acc
    ELSE LoadFrom(Tail(text), Put(acc, Head(text).k, Head(text).v))

Load(text) == LoadFrom(text, <<>>)

\* json.dump: one member per key of the dictionary, in its order.
DumpTruncated(d) == IF d = <<>> THEN <<>> ELSE SubSeq(d, 1, Len(d) - 1)

DumpNoUrl(d) == [i \in DOMAIN d |-> [k |-> d[i].k, v |-> [d[i].v EXCEPT !.rtsp_url = ""]]]

Dump(d) == [i \in DOMAIN d |-> [k |-> d[i].k, v |-> d[i].v]]

\* ------------------------------------------------------------ objects
\* No submit has returned yet.
NoStamp == [m |-> <<>>, e |-> -1]

\* HLSEncoder.__init__ (time = 0.0, proc = None) and the fields of the
\* HLSStream built around it.  pc = "none": no thread was started.  The
\* capture stands at frame pos of a source that delivers `frames` frames;
\* stamp is what the last submit returned and submits how many returned.
NewObj(id, url) ==
    [id |-> id,
     opened |-> Reachable(url),
     fps |-> IF Reachable(url) THEN SourceFps ELSE 0,
     pc |-> "none",
     running |-> FALSE,
     pipe |-> "unopened",
     ffmpeg |-> "none",
     time |-> FZero,
     pos |-> 0,
     frames |-> MaxFrames,
     stamp |-> NoStamp,
     submits |-> 0]

Fails == {"none", "makedirs", "probe", "thread"}

\* HLSManager.start_stream.  fail names the statement that raises, if any.
\* The result is the new dirs, objs, encoders, streams, and res: the index
\* of the encoder returned, or 0 for None.
StartStream(id, url, fail) ==
    LET n == Len(objs) + 1
        base == [dirs |-> dirs, objs |-> objs, encoders |-> encoders,
                 streams |-> streams, res |-> 0]
    IN  IF fail = "makedirs" THEN base
        ELSE IF fail = "probe" THEN [base EXCEPT !.dirs = dirs \cup {id}]
        ELSE IF fail = "thread"
             THEN [base EXCEPT !.dirs = dirs \cup {id},
                               !.objs = Append(objs, NewObj(id, url)),
                               !.encoders = Put(encoders, id, n)]
        ELSE [dirs |-> dirs \cup {id},
              objs |-> Append(objs, [NewObj(id, url) EXCEPT !.pc = "enter", !.running = TRUE]),
              encoders |-> Put(encoders, id, n),
              streams |-> Put(streams, id, n),
              res |-> n]

\* ------------------------------------------------------------ start-up
Idle == [op |-> "idle", pc |-> "idle"]

Member(id, url) == [k |-> id, v |-> ConfigEntry(id, url)]

Members == {Member(id, url) : id \in Ids, url \in Urls}

RECURSIVE SeqsUpTo(_, _)
SeqsUpTo(S, n) ==
    IF n = 0 THEN {<<>>}
    ELSE SeqsUpTo(S, n - 1) \cup
         {Append(s, e) : s \in {t \in SeqsUpTo(S, n - 1) : Len(t) = n - 1}, e \in S}

\* HLSManager.__init__ up to its for-loop.
Init ==
    /\ file \in SeqsUpTo(Members, MaxInit)
    /\ config = Load(file)
    /\ encoders = <<>>
    /\ streams = <<>>
    /\ dirs = {}
    /\ objs = <<>>
    /\ calls = [s \in Slots |-> Idle]
    /\ phase = "boot"
    /\ iter = 1
    /\ exitResult = "none"
    /\ served = Len(file)

\* One iteration of the for-loop of HLSManager.__init__.
BootStep(fail) ==
    /\ phase = "boot"
    /\ iter <= Len(config)
    /\ LET r == StartStream(config[iter].k, config[iter].v.rtsp_url, fail)
       IN  /\ dirs' = r.dirs
           /\ objs' = r.objs
           /\ encoders' = r.encoders
           /\ streams' = r.streams
    /\ iter' = iter + 1
    /\ UNCHANGED <<config, file, calls, phase, exitResult, served>>

\* HLSManager.__init__ returns to lifespan().
BootDone ==
    /\ phase = "boot"
    /\ iter > Len(config)
    /\ phase' = "ready"
    /\ UNCHANGED <<config, file, encoders, streams, dirs, objs, calls, iter, exitResult, served>>

\* lifespan() yields: the server starts answering requests.
Yield ==
    /\ phase = "ready"
    /\ phase' = "serving"
    /\ UNCHANGED <<config, file, encoders, streams, dirs, objs, calls, iter, exitResult, served>>

\* ------------------------------------------------------------ worker thread
SetObj(n, o) == [objs EXCEPT ![n] = o]

WorkerFrame == <<config, file, encoders, streams, dirs, calls, phase, iter, exitResult, served>>

\* HLSEncoder.__enter__, entered by `with self.encoder` in HLSStream.run:
\* the clock restarts and ffmpeg is launched; a launch that raises ends the
\* thread before the with-block is entered.
WEnter(n, launched) ==
    /\ objs[n].pc = "enter"
    /\ objs' = SetObj(n, IF launched
                         THEN [objs[n] EXCEPT !.time = FZero, !.stamp = NoStamp,
                                              !.submits = 0, !.pipe = "open",
                                              !.ffmpeg = "running", !.pc = "check"]
                         ELSE [objs[n] EXCEPT !.time = FZero, !.pc = "done"])
    /\ UNCHANGED WorkerFrame

WCheckDeaf(n) ==
    /\ objs[n].pc = "check"
    /\ objs' = SetObj(n, [objs[n] EXCEPT !.pc = "read"])
    /\ UNCHANGED WorkerFrame

\* `while self.running:`
WCheck(n) ==
    /\ objs[n].pc = "check"
    /\ objs' = SetObj(n, [objs[n] EXCEPT !.pc = IF objs[n].running THEN "read" ELSE "exit"])
    /\ UNCHANGED WorkerFrame

\* HLSEncoder.__call__ without wall-clock timestamps: start_time is the
\* clock, the clock advances by 1 / r in floating point, the frame is
\* written to ffmpeg's stdin and start_time returned; the write raises
\* once ffmpeg has exited, and then nothing is returned.
Submit(o) ==
    LET t == FAdd(o.time, FDiv(1, o.fps))
    IN  IF o.ffmpeg = "running"
        THEN [o EXCEPT !.time = t, !.stamp = o.time, !.submits = @ + 1]
        ELSE [o EXCEPT !.time = t]

\* One pass of the loop body: `ret, frame = self.cap.read()`, `continue`
\* when ret is false, else the frame is submitted to the encoder; an
\* exception of the submit leaves the with-block.  A capture that never
\* opened, or whose source is exhausted, only fails to read.
WRead(n, ret) ==
    /\ objs[n].pc = "read"
    /\ ret => (objs[n].opened /\ objs[n].pos < objs[n].frames)
    /\ objs' = SetObj(n, IF ret
                         THEN [Submit(objs[n]) EXCEPT
                                   !.pos = @ + 1,
                                   !.pc = IF objs[n].ffmpeg = "running"
                                          THEN "check" ELSE "exit"]
                         ELSE [objs[n] EXCEPT !.pc = "check"])
    /\ UNCHANGED WorkerFrame

\* HLSEncoder.__exit__: stdin is closed and proc forgotten; run() ends.
WExit(n) ==
    /\ objs[n].pc = "exit"
    /\ objs' = SetObj(n, [objs[n] EXCEPT !.pipe = "closed", !.pc = "done"])
    /\ UNCHANGED WorkerFrame

\* The ffmpeg process exits: on end of input, or on its own.
FfmpegExit(n) ==
    /\ objs[n].ffmpeg = "running"
    /\ objs' = SetObj(n, [objs[n] EXCEPT !.ffmpeg = "exited"])
    /\ UNCHANGED WorkerFrame

Worker(n) ==
    \/ \E launched \in BOOLEAN : WEnter(n, launched)
    \/ WCheck(n)
    \/ \E ret \in BOOLEAN : WRead(n, ret)
    \/ WExit(n)
    \/ FfmpegExit(n)

\* ------------------------------------------------------------ HTTP layer
\* The handlers of api.py are coroutines that never await: the event loop
\* runs one to its end before it starts the next.
EventLoopThreaded(c) == TRUE

EventLoopFree(c) == \A s \in Slots : c[s].op = "idle"

\* The slot a new request takes: the first idle one.
FreeSlot(s) == calls[s].op = "idle" /\ \A t \in Slots : t < s => calls[t].op # "idle"

\* What a handler finds when it starts.
Snapshot == [config |-> config, file |-> file, encoders |-> encoders,
             streams |-> streams, dirs |-> dirs, nobjs |-> Len(objs)]

\* `if id in self.config`
IsDuplicateNever(cfg, id) == FALSE

IsDuplicate(cfg, id) == Has(cfg, id)

\* HLSManager.add_stream, lines 163-165: the duplicate check.
AddCheck(s, id, url) ==
    /\ phase = "serving"
    /\ FreeSlot(s)
    /\ EventLoopFree(calls)
    /\ calls' = [calls EXCEPT ![s] =
                    [op |-> "add", id |-> id, url |-> url,
                     pc |-> IF IsDuplicate(config, id) THEN "ret" ELSE "start",
                     result |-> "None", fail |-> "none", obj |-> 0, pre |-> Snapshot]]
    /\ served < MaxOps
    /\ served' = served + 1
    /\ UNCHANGED <<config, file, encoders, streams, dirs, objs, phase, iter, exitResult>>

\* HLSManager.add_stream, lines 167-175: start_stream, then the registry
\* entry and the rewrite of the registry file when an encoder came back.
AddStart(s, fail) ==
    /\ calls[s].op = "add"
    /\ calls[s].pc = "start"
    /\ LET id == calls[s].id
           url == calls[s].url
           r == StartStream(id, url, fail)
           cfg == IF r.res # 0 THEN Put(config, id, ConfigEntry(id, url)) ELSE config
       IN  /\ dirs' = r.dirs
           /\ objs' = r.objs
           /\ encoders' = r.encoders
           /\ streams' = r.streams
           /\ config' = cfg
           /\ file' = IF r.res # 0 THEN Dump(cfg) ELSE file
           /\ calls' = [calls EXCEPT ![s].pc = "ret",
                                     ![s].result = IF r.res # 0 THEN "encoder" ELSE "None",
                                     ![s].fail = fail,
                                     ![s].obj = r.res]
    /\ UNCHANGED <<phase, iter, exitResult, served>>

\* HLSManager.remove_stream, lines 178-185.
RemovePop(s, id) ==
    /\ phase = "serving"
    /\ FreeSlot(s)
    /\ EventLoopFree(calls)
    /\ LET n == IF Has(streams, id) THEN Get(streams, id) ELSE 0
           cfg == Pop(config, id)
       IN  /\ streams' = Pop(streams, id)
           /\ objs' = IF n # 0 THEN SetObj(n, [objs[n] EXCEPT !.running = FALSE]) ELSE objs
           /\ encoders' = Pop(encoders, id)
           /\ config' = cfg
           /\ file' = Dump(cfg)
           /\ calls' = [calls EXCEPT ![s] =
                           [op |-> "remove", id |-> id, url |-> "", pc |-> "rmtree",
                            result |-> "None", fail |-> "none", obj |-> n, pre |-> Snapshot]]
    /\ served < MaxOps
    /\ served' = served + 1
    /\ UNCHANGED <<dirs, phase, iter, exitResult>>

\* HLSManager.remove_stream, line 186: shutil.rmtree raises when the
\* directory is missing, and may raise while ffmpeg still writes into it.
RemoveRmtree(s, ok) ==
    /\ calls[s].op = "remove"
    /\ calls[s].pc = "rmtree"
    /\ LET id == calls[s].id
           gone == id \in dirs /\ ok
       IN  /\ dirs' = IF gone THEN dirs \ {id} ELSE dirs
           /\ calls' = [calls EXCEPT ![s].pc = "ret",
                                     ![s].result = IF gone THEN "ok" ELSE "raised",
                                     ![s].fail = IF gone THEN "none" ELSE "rmtree"]
    /\ UNCHANGED <<config, file, encoders, streams, objs, phase, iter, exitResult, served>>

\* The answer of the handlers of api.py.
ApiStatus(c) ==
    IF c.result = "raised" THEN 500
    ELSE IF c.op = "add" /\ c.result = "None" THEN 400
    ELSE 200

\* The handler returns and its answer is sent.
Respond(s) ==
    /\ calls[s].pc = "ret"
    /\ calls' = [calls EXCEPT ![s] = Idle]
    /\ UNCHANGED <<config, file, encoders, streams, dirs, objs, phase, iter, exitResult, served>>

\* ------------------------------------------------------------ shutdown
\* lifespan() resumes after its yield and calls manager.stop().
StopBegin ==
    /\ phase = "serving"
    /\ \A s \in Slots : calls[s].op = "idle"
    /\ phase' = "stop_iter"
    /\ iter' = 1
    /\ UNCHANGED <<config, file, encoders, streams, dirs, objs, calls, exitResult, served>>

StopIterForgets(ok) ==
    /\ phase = "stop_iter"
    /\ iter <= Len(streams)
    /\ objs' = SetObj(streams[iter].v, [objs[streams[iter].v] EXCEPT !.running = FALSE])
    /\ dirs' = dirs \ {streams[iter].k}
    /\ config' = Pop(config, streams[iter].k)
    /\ file' = Dump(Pop(config, streams[iter].k))
    /\ phase' = "stop_join"
    /\ UNCHANGED <<encoders, streams, calls, iter, exitResult, served>>

\* HLSManager.stop, lines 190-191 of one iteration: the stop flag, then
\* rmtree, whose exception leaves stop().
StopIter(ok) ==
    /\ phase = "stop_iter"
    /\ iter <= Len(streams)
    /\ LET id == streams[iter].k
           n == streams[iter].v
           gone == id \in dirs /\ ok
       IN  /\ dirs' = IF gone THEN dirs \ {id} ELSE dirs
           /\ objs' = SetObj(n, [objs[n] EXCEPT !.running = FALSE])
           /\ phase' = IF gone THEN "stop_join" ELSE "exited"
           /\ exitResult' = IF gone THEN exitResult ELSE "raised"
    /\ UNCHANGED <<config, file, encoders, streams, calls, iter, served>>

\* HLSManager.stop, line 192: join returns once the thread has ended.
StopJoin ==
    /\ phase = "stop_join"
    /\ objs[streams[iter].v].pc = "done"
    /\ phase' = "stop_iter"
    /\ iter' = iter + 1
    /\ UNCHANGED <<config, file, encoders, streams, dirs, objs, calls, exitResult, served>>

\* HLSManager.stop returns after its last iteration.
StopDone ==
    /\ phase = "stop_iter"
    /\ iter > Len(streams)
    /\ phase' = "exited"
    /\ exitResult' = "ok"
    /\ UNCHANGED <<config, file, encoders, streams, dirs, objs, calls, iter, served>>

Next ==
    \/ \E fail \in Fails : BootStep(fail)
    \/ BootDone
    \/ Yield
    \/ \E n \in DOMAIN objs : Worker(n)
    \/ \E s \in Slots, id \in Ids, url \in Urls : AddCheck(s, id, url)
    \/ \E s \in Slots, fail \in Fails : AddStart(s, fail)
    \/ \E s \in Slots, id \in Ids : RemovePop(s, id)
    \/ \E s \in Slots, ok \in BOOLEAN : RemoveRmtree(s, ok)
    \/ \E s \in Slots : Respond(s)
    \/ StopBegin
    \/ \E ok \in BOOLEAN : StopIter(ok)
    \/ StopJoin
    \/ StopDone

Spec == Init /\ [][Next]_vars

\* A step of the thread of object n: HLSStream.run is scheduled again and
\* again, and its reads and writes return.
WorkerStep(n) ==
    /\ n \in DOMAIN objs
    /\ \/ \E launched \in BOOLEAN : WEnter(n, launched)
       \/ WCheck(n)
       \/ \E ret \in BOOLEAN : WRead(n, ret)
       \/ WExit(n)

\* A step of the main thread inside a call it has begun: the constructor,
\* lifespan(), a handler after its first statement, HLSManager.stop.  When
\* a request arrives and when the server is told to shut down is not the
\* program's to decide.
MainStep ==
    \/ \E fail \in Fails : BootStep(fail)
    \/ BootDone
    \/ Yield
    \/ \E s \in Slots, fail \in Fails : AddStart(s, fail)
    \/ \E s \in Slots, ok \in BOOLEAN : RemoveRmtree(s, ok)
    \/ \E s \in Slots : Respond(s)
    \/ \E ok \in BOOLEAN : StopIter(ok)
    \/ StopJoin
    \/ StopDone

FairSpec ==
    /\ Spec
    /\ WF_vars(MainStep)
    /\ \A n \in 1..MaxOps : WF_vars(WorkerStep(n))

\* ------------------------------------------------------------ encoder clock
\* Frame rates a source may report (start_stream takes int(CAP_PROP_FPS)).
ClockRates == {1, 2, 5, 10, 15, 30}

\* Frames the source of the clock specification delivers.
MaxClock == 4

\* The server right after it came up on a registry of one reachable stream
\* whose source reports the rate r: the worker thread was just started.
InitClock ==
    /\ file = <<Member("a", UrlUp)>>
    /\ config = Load(file)
    /\ encoders = <<[k |-> "a", v |-> 1]>>
    /\ streams = <<[k |-> "a", v |-> 1]>>
    /\ dirs = {"a"}
    /\ \E r \in ClockRates :
           objs = <<[NewObj("a", UrlUp) EXCEPT !.fps = r, !.frames = MaxClock,
                                              !.pc = "enter", !.running = TRUE]>>
    /\ calls = [s \in Slots |-> Idle]
    /\ phase = "serving"
    /\ iter = 2
    /\ exitResult = "none"
    /\ served = 1

\* Only the worker thread and its ffmpeg run.
NextClock == \E n \in DOMAIN objs : Worker(n)

SpecClock == InitClock /\ [][NextClock]_vars

\* ------------------------------------------------------------ properties
Returned(s, op) == calls[s].op = op /\ calls[s].pc = "ret"

WorkerEnded(n) == objs[n].pc \in {"none", "done"}

\* C1: an add_stream(id, url) called while id is in manager.config or in
\* manager.streams returns None (answered 400) and leaves the registry, the
\* registry file, the encoders, the streams and the directories as they
\* were, constructing no encoder object.
C1_DuplicateAddRejected ==
    \A s \in Slots :
        (/\ Returned(s, "add")
         /\ Has(calls[s].pre.config, calls[s].id) \/ Has(calls[s].pre.streams, calls[s].id))
        => /\ calls[s].result = "None"
           /\ ApiStatus(calls[s]) = 400
           /\ config = calls[s].pre.config
           /\ file = calls[s].pre.file
           /\ encoders = calls[s].pre.encoders
           /\ streams = calls[s].pre.streams
           /\ dirs = calls[s].pre.dirs
           /\ Len(objs) = calls[s].pre.nobjs

\* C1 witness: a duplicate add has returned while the first pipeline of
\* that id is registered and active.
C1_Witness ==
    \E s \in Slots :
        /\ Returned(s, "add")
        /\ Has(calls[s].pre.config, calls[s].id)
        /\ Has(calls[s].pre.streams, calls[s].id)
        /\ calls[s].result = "None"

\* C2 (as claimed): when remove_stream(id) returns for a registered id, the
\* directory stream/<id> is gone, the worker thread has ended, and neither
\* manager.config nor the registry file holds id.
C2_CleanTeardown ==
    \A s \in Slots :
        (/\ Returned(s, "remove")
         /\ calls[s].result = "ok"
         /\ Has(calls[s].pre.config, calls[s].id))
        => /\ calls[s].id \notin dirs
           /\ calls[s].obj # 0 => WorkerEnded(calls[s].obj)
           /\ ~Has(config, calls[s].id)
           /\ ~Has(Load(file), calls[s].id)

\* C3 (as claimed): when a statement of start_stream raises during
\* add_stream(id, url), the call returns None, the registry and the registry
\* file are as before, and no directory, encoder or worker of id remains.
C3_NoPartialRegistration ==
    \A s \in Slots :
        (Returned(s, "add") /\ calls[s].fail # "none")
        => /\ calls[s].result = "None"
           /\ config = calls[s].pre.config
           /\ file = calls[s].pre.file
           /\ calls[s].id \notin dirs
           /\ ~Has(encoders, calls[s].id)
           /\ ~Has(streams, calls[s].id)

\* C4 (as claimed): remove_stream(id) for an id in neither manager.config
\* nor manager.streams returns normally (answered 200) and changes nothing:
\* registry, registry contents on file, encoders, streams, and the
\* directories of the other streams.
C4_IdempotentRemove ==
    \A s \in Slots :
        (/\ Returned(s, "remove")
         /\ ~Has(calls[s].pre.config, calls[s].id)
         /\ ~Has(calls[s].pre.streams, calls[s].id))
        => /\ calls[s].result = "ok"
           /\ ApiStatus(calls[s]) = 200
           /\ config = calls[s].pre.config
           /\ Load(file) = Load(calls[s].pre.file)
           /\ streams = calls[s].pre.streams
           /\ encoders = calls[s].pre.encoders
           /\ dirs \ {calls[s].id} = calls[s].pre.dirs \ {calls[s].id}

\* C5 (as claimed): the directory of a stream is deleted only after its
\* worker has submitted its last frame and its encoder's input is closed:
\* an encoder whose directory is gone is closed and its worker has ended.
C5_RemovalOrder ==
    \A n \in DOMAIN objs :
        objs[n].id \notin dirs => (WorkerEnded(n) /\ objs[n].pipe # "open")

C7_BestEffortShutdown ==
    phase = "exited" => \A i \in DOMAIN streams : ~objs[streams[i].v].running

\* C8 (as claimed): when manager.stop() has ended, every worker thread has
\* ended and every encoder's input is closed.
C8_ShutdownComplete ==
    phase = "exited" =>
        \A n \in DOMAIN objs : WorkerEnded(n) /\ objs[n].pipe # "open"

\* C9 (as claimed): when HLSManager.__init__ returns, no encoder and no
\* worker is held for a registry entry whose source cannot be reached.
C9_BootstrapSkipsUnreachable ==
    phase = "ready" =>
        \A i \in DOMAIN config :
            ~Reachable(config[i].v.rtsp_url)
            => (~Has(streams, config[i].k) /\ ~Has(encoders, config[i].k))

C11_CleanupFailureTolerated ==
    \A s \in Slots :
        (Returned(s, "remove") /\ calls[s].fail = "rmtree")
        => /\ ~Has(config, calls[s].id)
           /\ ~Has(Load(file), calls[s].id)
           /\ calls[s].obj # 0 => ~objs[calls[s].obj].running
           /\ ApiStatus(calls[s]) = 200

\* A worker inside its with-block: its encoder writes to stream/<id>.
Live(n) == objs[n].pc \in {"check", "read", "exit"} /\ objs[n].pipe = "open"

\* C13 (as claimed): every id has at most one live pipeline, and an id
\* leaves the registry only once its worker has ended, so every live
\* worker belongs to a registered id.
C13_SinglePipelinePerId ==
    /\ \A id \in Ids : Cardinality({n \in DOMAIN objs : objs[n].id = id /\ Live(n)}) <= 1
    /\ \A n \in DOMAIN objs : Live(n) => Has(config, objs[n].id)

\* A worker that left its loop without being told to stop: its write to the
\* exited ffmpeg raised.
DiedOfEncoder(n) ==
    /\ objs[n].pc = "done"
    /\ objs[n].running
    /\ objs[n].pipe = "closed"
    /\ objs[n].ffmpeg = "exited"

\* C16 (as claimed): a worker whose submit failed on an exited ffmpeg has
\* ended, and the manager keeps no handle of it in manager.streams.
C16_EncoderDeathReported ==
    \A i \in DOMAIN streams : ~DiedOfEncoder(streams[i].v)

\* C17 (as claimed): once HLSEncoder.__exit__ has closed the input, the
\* ffmpeg process has exited and the worker submits nothing more.
C17_CloseWaitsForExit ==
    \A n \in DOMAIN objs :
        objs[n].pipe = "closed" => (objs[n].ffmpeg = "exited" /\ objs[n].pc = "done")

\* The same ids with the same rtsp_url.
SameRegistry(d1, d2) ==
    /\ Keys(d1) = Keys(d2)
    /\ \A id \in Keys(d1) : Get(d1, id).rtsp_url = Get(d2, id).rtsp_url

\* C18: when an add_stream or remove_stream call has returned, whatever its
\* outcome, the registry file holds the ids and urls of manager.config.
C18_FileMirrorsConfig ==
    \A s \in Slots : calls[s].pc = "ret" => SameRegistry(Load(file), config)

\* C18 witness: a remove_stream of a registered id has returned after its
\* rmtree raised.
C18_Witness ==
    \E s \in Slots :
        /\ Returned(s, "remove")
        /\ calls[s].result = "raised"
        /\ Has(calls[s].pre.config, calls[s].id)

\* C19: no step of manager.stop() changes manager.config or the registry
\* file, and when stop() has ended a load of the file gives the registry
\* held in memory.
C19_ShutdownKeepsRegistry ==
    /\ [][phase' \in {"stop_iter", "stop_join", "exited"}
          => (config' = config /\ file' = file)]_vars
    /\ [](phase = "exited" => SameRegistry(Load(file), config))

\* C19 witness: stop() has returned after deleting the directory of every
\* registered stream.
C19_Witness ==
    /\ phase = "exited"
    /\ exitResult = "ok"
    /\ Len(config) >= 1
    /\ Keys(streams) = Keys(config)
    /\ dirs = {}

\* C20 (as claimed): once bootstrap is over and no call is under way, the
\* keys of manager.streams and manager.encoders are equal and are keys of
\* manager.config.
C20_HandleMapsAligned ==
    (phase # "boot" /\ \A s \in Slots : calls[s].pc \in {"idle", "ret"})
    => /\ Keys(streams) = Keys(encoders)
       /\ Keys(encoders) \subseteq Keys(config)

\* stop() was called on the worker of object n.
Stopped(n) == n \in DOMAIN objs /\ objs[n].pc # "none" /\ ~objs[n].running

\* The thread of object n has ended and its encoder's input is not open.
Terminated(n) == n \in DOMAIN objs /\ objs[n].pc = "done" /\ objs[n].pipe # "open"

\* C14: a worker told to stop is never told to run again; at its next loop
\* test it leaves the loop instead of reading, so only the pass of the loop
\* under way when stop() came still reads; and it goes on to close its
\* encoder's input and to end.
C14_CooperativeCancel ==
    /\ [][\A n \in DOMAIN objs :
            (objs[n].pc # "none" /\ ~objs[n].running)
            => /\ ~objs'[n].running
               /\ objs[n].pc = "check" => objs'[n].pc \in {"check", "exit"}]_vars
    /\ \A n \in 1..MaxOps : Stopped(n) ~> Terminated(n)

\* C14 witness: a worker that submitted a frame was told to stop, left its
\* loop and closed its encoder's input.
C14_Witness ==
    \E n \in DOMAIN objs :
        /\ ~objs[n].running
        /\ objs[n].pc = "done"
        /\ objs[n].pipe = "closed"
        /\ objs[n].submits > 0

\* Every read of the worker of object n fails from now on.
SourceLost(n) ==
    /\ n \in DOMAIN objs
    /\ objs[n].pc \in {"check", "read"}
    /\ ~objs[n].opened \/ objs[n].pos >= objs[n].frames

\* C15 (as claimed): a worker whose source is lost leaves its loop and ends.
C15_SourceLossEndsWorker ==
    \A n \in 1..MaxOps : SourceLost(n) ~> Terminated(n)

\* C12 (as claimed): with a frame rate R >= 1, the k-th submit since the
\* encoder was opened (k = 0, 1, ...) returns exactly k / R, and the clock
\* stands at 0 when the encoder has just been opened.
C12_ExactTimestamps ==
    \A n \in DOMAIN objs :
        /\ (objs[n].pipe = "open" /\ objs[n].pos = 0) => objs[n].time = FZero
        /\ (objs[n].fps >= 1 /\ objs[n].submits > 0)
           => objs[n].stamp = FDiv(objs[n].submits - 1, objs[n].fps)
====
